---- MODULE Spec2Model ----
(***************************************************************************)
(* A model of the spdr-isa crate: the opcode table (src/src/opcodes.rs),   *)
(* the register constants (src/src/registers.rs) and the Program byte      *)
(* container with its construction operations, its indexing, its           *)
(* save/load to a file and its disassembler (src/src/program.rs).          *)
(*                                                                         *)
(* A byte is a number in 0..255.  A Program is the sequence `inner`.       *)
(* Offsets are 0-based as in the source; TLA+ sequences are 1-based, so    *)
(* the byte at offset i of s is s[i + 1].                                  *)
(***************************************************************************)
EXTENDS Integers, Sequences, FiniteSets, TLC

VARIABLES
  inner,      \* Program.inner: the byte buffer
  out,        \* outcome of the last disassembly (Display::fmt) of the Program
  shape,      \* what the caller has emitted so far: "complete", "partial", "badtag", "badflag"
  ret,        \* outcome of the last Index / IndexMut call
  file,       \* the file at the path used by save/load: <<>> absent, <<bytes>> present
  saveRes,    \* outcome of the last save: "none", "Ok", "Err"
  saved,      \* bytes of the Program when save last returned Ok: <<>> none, <<bytes>>
  loadRes,    \* outcome of the last load: [kind, inner, io]
  prepended,  \* history: concatenation of the push_front chunks, latest first
  initial,    \* history: the bytes the Program was constructed from
  appended,   \* history: the bytes appended by push / extend_from_slice, in order
  emitted,    \* history: the instruction encodings the caller appended, in order
  reads,      \* history: the read-only calls made on the Program and their outcomes, in order
  lastOp      \* name of the operation called last

vars == <<inner, out, shape, ret, file, saveRes, saved, loadRes,
          prepended, initial, appended, emitted, reads, lastOp>>

-----------------------------------------------------------------------------
(* Bounds of the model. *)

\* Most instructions the caller emits before disassembling.
MaxInstrs == 2
\* Longest buffer, in bytes, of the construction and storage specifications.
MaxBuild == 4
\* Most read-only calls made on one Program in the read-only specification.
MaxReads == 3

-----------------------------------------------------------------------------
(* registers.rs *)

REG_COUNT == 255
FIRST_FREE_REGISTER == 13
PC == 0
SP == 1
EQ == 2
LOOP == 3

\* "Registers R4-R13 are reserved for function arguments."
ArgRegisters == 4..13
\* The registers the module documents as reserved.
ReservedRegisters == {PC, SP, EQ, LOOP} \cup ArgRegisters

-----------------------------------------------------------------------------
(* opcodes.rs: the OpCode enum.  A variant is modelled by its name; its    *)
(* tag is its position in the declaration (derive(ToPrimitive) / `as u8`). *)

OpCodeDecl ==
  << "Hlt", "Load", "Copy", "MemCpy", "AddRI", "SubRI", "RvSubRI", "MulRI",
     "DivRI", "RvDivRI", "PowRI", "RvPowRI", "AddRR", "SubRR", "MulRR",
     "DivRR", "PowRR", "CmpRI", "CmpRR", "Not", "Jmp", "Jz", "Jnz", "Call",
     "SysCall", "Ret", "Alloc", "Realloc", "Dealloc", "RMem", "WMem",
     "WriteStr", "Push", "Pop", "PopR", "Noop" >>

OpCodes == { OpCodeDecl[i] : i \in 1..Len(OpCodeDecl) }

\* impl From<OpCode> for u8: value as u8
OpCodeToU8(op) == (CHOOSE i \in 1..Len(OpCodeDecl) : OpCodeDecl[i] = op) - 1

\* A faulty from_u8 for OpCode: the variants numbered from 1.
OpCodeFromPrimitiveOneBased(value) ==
  IF value \in 1..Len(OpCodeDecl) THEN <<OpCodeDecl[value]>> ELSE <<>>

\* FromPrimitive::from_u8 for OpCode: Some(variant) or None
OpCodeFromPrimitive(value) ==
  IF value + 1 \in 1..Len(OpCodeDecl) THEN <<OpCodeDecl[value + 1]>> ELSE <<>>

\* A faulty From<u8> for OpCode: the byte reduced to a tag, never a panic
\* (as an unchecked cast of the byte would do).
OpCodeFromU8Wrapping(value) ==
  [kind |-> "ok", op |-> OpCodeDecl[(value % Len(OpCodeDecl)) + 1]]

\* impl From<u8> for OpCode: the variant, or a panic
OpCodeFromU8(value) ==
  IF OpCodeFromPrimitive(value) # <<>>
    THEN [kind |-> "ok", op |-> OpCodeFromPrimitive(value)[1]]
    ELSE [kind |-> "panic", op |-> "", panic |-> "invalid_opcode"]

\* impl Display for OpCode
OpCodeDisplay(op) ==
  CASE op = "Hlt" -> "Hlt"
    [] op = "Load" -> "Load"
    [] op = "AddRI" -> "Add_RI"
    [] op = "SubRI" -> "Sub_RI"
    [] op = "RvSubRI" -> "RvSub_RI"
    [] op = "MulRI" -> "Mul_RI"
    [] op = "DivRI" -> "Div_RI"
    [] op = "RvDivRI" -> "RvDiv_RI"
    [] op = "PowRI" -> "Pow_RI"
    [] op = "RvPowRI" -> "RvPow_RI"
    [] op = "AddRR" -> "Add_RR"
    [] op = "SubRR" -> "Sub_RR"
    [] op = "MulRR" -> "Mul_RR"
    [] op = "DivRR" -> "Div_RR"
    [] op = "PowRR" -> "Pow_RR"
    [] op = "Call" -> "Call"
    [] op = "Jz" -> "Jz"
    [] op = "Jnz" -> "Jnz"
    [] op = "Jmp" -> "Jmp"
    [] op = "CmpRI" -> "Cmp_RI"
    [] op = "CmpRR" -> "Cmp_RR"
    [] op = "Not" -> "Not"
    [] op = "Copy" -> "Copy"
    [] op = "MemCpy" -> "MemCpy"
    [] op = "SysCall" -> "SysCall"
    [] op = "Ret" -> "Ret"
    [] op = "Alloc" -> "Alloc"
    [] op = "Realloc" -> "Realloc"
    [] op = "Dealloc" -> "Dealloc"
    [] op = "RMem" -> "RMem"
    [] op = "WMem" -> "WMem"
    [] op = "Push" -> "Push"
    [] op = "Pop" -> "Pop"
    [] op = "PopR" -> "PopR"
    [] op = "Noop" -> "Noop"
    [] op = "WriteStr" -> "WriteStr"

(* opcodes.rs: the CmpFlag enum. *)

CmpFlagDecl == << "Eq", "Gt", "Lt", "Geq", "Leq" >>

\* impl From<CmpFlag> for u8: value as u8
CmpFlagToU8(fl) == (CHOOSE i \in 1..Len(CmpFlagDecl) : CmpFlagDecl[i] = fl) - 1

\* FromPrimitive::from_u8 for CmpFlag: Some(variant) or None
CmpFlagFromPrimitive(value) ==
  IF value + 1 \in 1..Len(CmpFlagDecl) THEN <<CmpFlagDecl[value + 1]>> ELSE <<>>

\* A faulty From<u8> for CmpFlag: the byte reduced to a tag, never a panic.
CmpFlagFromU8Wrapping(value) ==
  [kind |-> "ok", fl |-> CmpFlagDecl[(value % Len(CmpFlagDecl)) + 1]]

\* impl From<u8> for CmpFlag: the variant, or a panic
CmpFlagFromU8(value) ==
  IF CmpFlagFromPrimitive(value) # <<>>
    THEN [kind |-> "ok", fl |-> CmpFlagFromPrimitive(value)[1]]
    ELSE [kind |-> "panic", fl |-> "", panic |-> "invalid_cmpflag"]

\* impl Display for CmpFlag
CmpFlagDisplay(fl) ==
  CASE fl = "Eq" -> "EQ"
    [] fl = "Gt" -> "GT"
    [] fl = "Lt" -> "LT"
    [] fl = "Geq" -> "GEQ"
    [] fl = "Leq" -> "LEQ"

-----------------------------------------------------------------------------
(* Formatting of operands, as `format!("{}", x)` does it. *)

Digit(d) ==
  CASE d = 0 -> "0" [] d = 1 -> "1" [] d = 2 -> "2" [] d = 3 -> "3"
    [] d = 4 -> "4" [] d = 5 -> "5" [] d = 6 -> "6" [] d = 7 -> "7"
    [] d = 8 -> "8" [] d = 9 -> "9"

\* Decimal text of a natural number below 2^31.
RECURSIVE DecStr(_)
DecStr(n) == IF n < 10 THEN Digit(n) ELSE DecStr(n \div 10) \o Digit(n % 10)

\* u8 as Display
U8Str(b) == DecStr(b)

\* Decimal text of the number hi * 65536 + lo, for 16-bit halves hi and lo
\* (a u32 does not fit the model checker's integers): long division by 10.
RECURSIVE DecStr32(_, _)
DecStr32(hi, lo) ==
  IF hi = 0 THEN DecStr(lo)
  ELSE LET qhi == hi \div 10
           mid == (hi % 10) * 65536 + lo
       IN DecStr32(qhi + (mid \div 10) \div 65536, (mid \div 10) % 65536)
            \o Digit(mid % 10)

\* transmute::<[u8; 4], u32> on a little-endian target, then u32 as Display.
\* (The tests expect [50, 0, 0, 0] to read 50.)
U32Str(c) == DecStr32(c[4] * 256 + c[3], c[2] * 256 + c[1])

Pow2(n) == 2 ^ n

\* The fields of the IEEE-754 single whose little-endian bytes are c.
F32Sign(c) == c[4] \div 128
F32Exp(c) == (c[4] % 128) * 2 + (c[3] \div 128)
F32Man(c) == (c[3] % 128) * 65536 + c[2] * 256 + c[1]

\* The bit patterns whose f32 Display text the model computes: zeros,
\* infinities, NaNs, and the integers of magnitude below 2^24 (which Rust
\* prints as the integer, without a fraction or an exponent).
F32Modelled(c) ==
  \/ F32Exp(c) = 255
  \/ F32Exp(c) = 0 /\ F32Man(c) = 0
  \/ /\ F32Exp(c) \in 127..150
     /\ (Pow2(23) + F32Man(c)) % Pow2(150 - F32Exp(c)) = 0

\* transmute::<[u8; 4], f32> on a little-endian target, then f32 as Display.
F32Str(c) ==
  CASE F32Exp(c) = 255 /\ F32Man(c) # 0 -> "NaN"
    [] F32Exp(c) = 255 /\ F32Man(c) = 0 ->
         (IF F32Sign(c) = 1 THEN "-inf" ELSE "inf")
    [] F32Exp(c) = 0 /\ F32Man(c) = 0 ->
         (IF F32Sign(c) = 1 THEN "-0" ELSE "0")
    [] F32Exp(c) \in 127..150
         /\ (Pow2(23) + F32Man(c)) % Pow2(150 - F32Exp(c)) = 0 ->
         (IF F32Sign(c) = 1 THEN "-" ELSE "")
           \o DecStr((Pow2(23) + F32Man(c)) \div Pow2(150 - F32Exp(c)))

\* The register text of the Jnz | Jz and Not | WriteStr arms:
\* Some(a) if a == 2 => "EQ", Some(a) => a.to_string()
CondStr(a) == IF a = 2 THEN "EQ" ELSE U8Str(a)

-----------------------------------------------------------------------------
(* program.rs: impl Display for Program.                                   *)
(* src is self.inner.clone().into_iter(); p is the number of bytes the     *)
(* iterator has yielded so far, so the next byte it yields is at offset p. *)

\* src.next() is Some(_)
HasByte(src, p) == p < Len(src)
\* the byte src.next() yields
Byte(src, p) == src[p + 1]
\* src.next_chunk::<4>() is Ok(_)
HasChunk(src, p) == p + 4 <= Len(src)
\* the array src.next_chunk::<4>() yields
Chunk(src, p) == SubSeq(src, p + 1, p + 4)

\* An arm that pushed its line onto `output`, leaving the iterator at pos;
\* regs are the operand bytes it printed as registers.
ArmLine(pos, line, regs) ==
  [kind |-> "ok", pos |-> pos, line |-> line, regs |-> regs, panic |-> ""]
\* An arm that panicked, after the iterator yielded `pos` bytes:
\* "unwrap_none" (Option::unwrap on None), "unwrap_err" (Result::unwrap on
\* the Err of next_chunk, which has drained the iterator), "unreachable"
\* (unreachable!()), "invalid_cmpflag" (CmpFlag::from).
ArmPanic(msg, pos) ==
  [kind |-> "panic", pos |-> pos, line |-> "", regs |-> <<>>, panic |-> msg]

\* OpCode::Load
ArmLoad(op, src, p) ==
  IF ~HasByte(src, p) THEN ArmPanic("unwrap_none", p)
  ELSE IF ~HasChunk(src, p + 1) THEN ArmPanic("unwrap_err", Len(src))
  ELSE ArmLine(p + 5,
         OpCodeDisplay(op) \o " $" \o U8Str(Byte(src, p)) \o ", "
           \o F32Str(Chunk(src, p + 1)),
         <<Byte(src, p)>>)

\* OpCode::AddRI | SubRI | MulRI | DivRI | PowRI | RvSubRI | RvDivRI | RvPowRI
ArmRI(op, src, p) ==
  IF ~HasByte(src, p) THEN ArmPanic("unwrap_none", p)
  ELSE IF ~HasByte(src, p + 1) THEN ArmPanic("unwrap_none", p + 1)
  ELSE IF ~HasChunk(src, p + 2) THEN ArmPanic("unwrap_err", Len(src))
  ELSE ArmLine(p + 6,
         OpCodeDisplay(op) \o " $" \o U8Str(Byte(src, p)) \o ", $"
           \o U8Str(Byte(src, p + 1)) \o ", " \o F32Str(Chunk(src, p + 2)),
         <<Byte(src, p), Byte(src, p + 1)>>)

\* OpCode::AddRR | SubRR | MulRR | DivRR | PowRR
ArmRR(op, src, p) ==
  IF ~HasByte(src, p) THEN ArmPanic("unwrap_none", p)
  ELSE IF ~HasByte(src, p + 1) THEN ArmPanic("unwrap_none", p + 1)
  ELSE IF ~HasByte(src, p + 2) THEN ArmPanic("unwrap_none", p + 2)
  ELSE ArmLine(p + 3,
         OpCodeDisplay(op) \o " $" \o U8Str(Byte(src, p)) \o ", $"
           \o U8Str(Byte(src, p + 1)) \o ", $" \o U8Str(Byte(src, p + 2)),
         <<Byte(src, p), Byte(src, p + 1), Byte(src, p + 2)>>)

\* OpCode::Jmp
ArmJmp(op, src, p) ==
  IF ~HasChunk(src, p) THEN ArmPanic("unwrap_err", Len(src))
  ELSE ArmLine(p + 4, OpCodeDisplay(op) \o " " \o U32Str(Chunk(src, p)), <<>>)

\* OpCode::Jnz | OpCode::Jz
ArmJcond(op, src, p) ==
  IF ~HasByte(src, p) THEN ArmPanic("unreachable", p)
  ELSE IF ~HasChunk(src, p + 1) THEN ArmPanic("unwrap_err", Len(src))
  ELSE ArmLine(p + 5,
         OpCodeDisplay(op) \o " $" \o CondStr(Byte(src, p)) \o ", "
           \o U32Str(Chunk(src, p + 1)),
         <<Byte(src, p)>>)

\* A faulty CmpRI arm: the flag printed as the byte it is, not by name.
ArmCmpRIFlagByte(op, src, p) ==
  IF ~HasByte(src, p) THEN ArmPanic("unwrap_none", p)
  ELSE IF ~HasByte(src, p + 1) THEN ArmPanic("unwrap_none", p + 1)
  ELSE IF ~HasChunk(src, p + 2) THEN ArmPanic("unwrap_err", Len(src))
  ELSE ArmLine(p + 6,
         OpCodeDisplay(op) \o " " \o U8Str(Byte(src, p)) \o ", $"
           \o U8Str(Byte(src, p + 1)) \o ", " \o F32Str(Chunk(src, p + 2)),
         <<Byte(src, p + 1)>>)

\* OpCode::CmpRI
ArmCmpRI(op, src, p) ==
  IF ~HasByte(src, p) THEN ArmPanic("unwrap_none", p)
  ELSE IF CmpFlagFromU8(Byte(src, p)).kind = "panic"
    THEN ArmPanic(CmpFlagFromU8(Byte(src, p)).panic, p + 1)
  ELSE IF ~HasByte(src, p + 1) THEN ArmPanic("unwrap_none", p + 1)
  ELSE IF ~HasChunk(src, p + 2) THEN ArmPanic("unwrap_err", Len(src))
  ELSE ArmLine(p + 6,
         OpCodeDisplay(op) \o " "
           \o CmpFlagDisplay(CmpFlagFromU8(Byte(src, p)).fl) \o ", $"
           \o U8Str(Byte(src, p + 1)) \o ", " \o F32Str(Chunk(src, p + 2)),
         <<Byte(src, p + 1)>>)

\* OpCode::CmpRR
ArmCmpRR(op, src, p) ==
  IF ~HasByte(src, p) THEN ArmPanic("unwrap_none", p)
  ELSE IF CmpFlagFromU8(Byte(src, p)).kind = "panic"
    THEN ArmPanic(CmpFlagFromU8(Byte(src, p)).panic, p + 1)
  ELSE IF ~HasByte(src, p + 1) THEN ArmPanic("unwrap_none", p + 1)
  ELSE IF ~HasByte(src, p + 2) THEN ArmPanic("unwrap_none", p + 2)
  ELSE ArmLine(p + 3,
         OpCodeDisplay(op) \o " "
           \o CmpFlagDisplay(CmpFlagFromU8(Byte(src, p)).fl) \o ", $"
           \o U8Str(Byte(src, p + 1)) \o ", $" \o U8Str(Byte(src, p + 2)),
         <<Byte(src, p + 1), Byte(src, p + 2)>>)

\* A faulty Not | WriteStr arm: the second register named like the first.
ArmNotBothCond(op, src, p) ==
  IF ~HasByte(src, p) THEN ArmPanic("unreachable", p)
  ELSE IF ~HasByte(src, p + 1) THEN ArmPanic("unwrap_none", p + 1)
  ELSE ArmLine(p + 2,
         OpCodeDisplay(op) \o " $" \o CondStr(Byte(src, p)) \o ", $"
           \o CondStr(Byte(src, p + 1)),
         <<Byte(src, p), Byte(src, p + 1)>>)

\* OpCode::Not | OpCode::WriteStr
ArmNot(op, src, p) ==
  IF ~HasByte(src, p) THEN ArmPanic("unreachable", p)
  ELSE IF ~HasByte(src, p + 1) THEN ArmPanic("unwrap_none", p + 1)
  ELSE ArmLine(p + 2,
         OpCodeDisplay(op) \o " $" \o CondStr(Byte(src, p)) \o ", $"
           \o U8Str(Byte(src, p + 1)),
         <<Byte(src, p), Byte(src, p + 1)>>)

\* OpCode::Copy | OpCode::MemCpy, and OpCode::Alloc | OpCode::Realloc
\* (two arms of the same shape)
ArmRegReg(op, src, p) ==
  IF ~HasByte(src, p) THEN ArmPanic("unwrap_none", p)
  ELSE IF ~HasByte(src, p + 1) THEN ArmPanic("unwrap_none", p + 1)
  ELSE ArmLine(p + 2,
         OpCodeDisplay(op) \o " $" \o U8Str(Byte(src, p)) \o ", $"
           \o U8Str(Byte(src, p + 1)),
         <<Byte(src, p), Byte(src, p + 1)>>)

\* A faulty Call | SysCall | Ret arm: Call reads a 4-byte index.
ArmCallImm32(op, src, p) ==
  IF op = "Call"
    THEN IF ~HasChunk(src, p) THEN ArmPanic("unwrap_err", Len(src))
         ELSE ArmLine(p + 4, OpCodeDisplay(op) \o " " \o U32Str(Chunk(src, p)),
                <<>>)
  ELSE IF ~HasByte(src, p) THEN ArmPanic("unwrap_none", p)
  ELSE ArmLine(p + 1, OpCodeDisplay(op) \o " " \o U8Str(Byte(src, p)), <<>>)

\* OpCode::Call | OpCode::SysCall | OpCode::Ret
ArmCall(op, src, p) ==
  IF ~HasByte(src, p) THEN ArmPanic("unwrap_none", p)
  ELSE ArmLine(p + 1, OpCodeDisplay(op) \o " " \o U8Str(Byte(src, p)), <<>>)

\* A faulty RMem | WMem arm: the offset register is not read.
ArmMemNoOffsetReg(op, src, p) ==
  IF ~HasByte(src, p) THEN ArmPanic("unwrap_none", p)
  ELSE IF ~HasByte(src, p + 1) THEN ArmPanic("unwrap_none", p + 1)
  ELSE IF ~HasChunk(src, p + 2) THEN ArmPanic("unwrap_err", Len(src))
  ELSE ArmLine(p + 6,
         OpCodeDisplay(op) \o " $" \o U8Str(Byte(src, p)) \o ", $"
           \o U8Str(Byte(src, p + 1)) \o ", " \o U32Str(Chunk(src, p + 2)),
         <<Byte(src, p), Byte(src, p + 1)>>)

\* OpCode::RMem | OpCode::WMem
ArmMem(op, src, p) ==
  IF ~HasByte(src, p) THEN ArmPanic("unwrap_none", p)
  ELSE IF ~HasByte(src, p + 1) THEN ArmPanic("unwrap_none", p + 1)
  ELSE IF ~HasChunk(src, p + 2) THEN ArmPanic("unwrap_err", Len(src))
  ELSE IF ~HasByte(src, p + 6) THEN ArmPanic("unwrap_none", p + 6)
  ELSE ArmLine(p + 7,
         OpCodeDisplay(op) \o " $" \o U8Str(Byte(src, p)) \o ", $"
           \o U8Str(Byte(src, p + 1)) \o ", " \o U32Str(Chunk(src, p + 2))
           \o ", $" \o U8Str(Byte(src, p + 6)),
         <<Byte(src, p), Byte(src, p + 1), Byte(src, p + 6)>>)

\* A faulty Dealloc | Push | PopR arm: src.next().unwrap_or_default().
ArmRegOrDefault(op, src, p) ==
  IF ~HasByte(src, p)
    THEN ArmLine(p, OpCodeDisplay(op) \o " $" \o U8Str(0), <<0>>)
  ELSE ArmLine(p + 1, OpCodeDisplay(op) \o " $" \o U8Str(Byte(src, p)),
         <<Byte(src, p)>>)

\* OpCode::Dealloc | OpCode::Push | OpCode::PopR
ArmReg(op, src, p) ==
  IF ~HasByte(src, p) THEN ArmPanic("unwrap_none", p)
  ELSE ArmLine(p + 1, OpCodeDisplay(op) \o " $" \o U8Str(Byte(src, p)),
         <<Byte(src, p)>>)

\* OpCode::Hlt | OpCode::Pop | OpCode::Noop
ArmNone(op, src, p) == ArmLine(p, OpCodeDisplay(op), <<>>)

\* match op { ... }
Arm(op, src, p) ==
  CASE op = "Load" -> ArmLoad(op, src, p)
    [] op \in {"AddRI", "SubRI", "MulRI", "DivRI", "PowRI", "RvSubRI",
               "RvDivRI", "RvPowRI"} -> ArmRI(op, src, p)
    [] op \in {"AddRR", "SubRR", "MulRR", "DivRR", "PowRR"} -> ArmRR(op, src, p)
    [] op = "Jmp" -> ArmJmp(op, src, p)
    [] op \in {"Jnz", "Jz"} -> ArmJcond(op, src, p)
    [] op = "CmpRI" -> ArmCmpRI(op, src, p)
    [] op = "CmpRR" -> ArmCmpRR(op, src, p)
    [] op \in {"Not", "WriteStr"} -> ArmNot(op, src, p)
    [] op \in {"Copy", "MemCpy"} -> ArmRegReg(op, src, p)
    [] op \in {"Call", "SysCall", "Ret"} -> ArmCall(op, src, p)
    [] op \in {"Alloc", "Realloc"} -> ArmRegReg(op, src, p)
    [] op \in {"RMem", "WMem"} -> ArmMem(op, src, p)
    [] op \in {"Dealloc", "Push", "PopR"} -> ArmReg(op, src, p)
    [] op \in {"Hlt", "Pop", "Noop"} -> ArmNone(op, src, p)

\* The outcome of a disassembly that returned: `text` is what was written
\* to the formatter; `instrs` lists, for each tag the loop read, its offset
\* `at`, its opcode, the offset `next` the iterator stood at when the arm
\* was done, the operand bytes printed as registers, and its line.
FmtOk(text, instrs, pos) ==
  [kind |-> "ok", text |-> text, instrs |-> instrs, panic |-> "",
   consumed |-> pos]
\* The outcome of a disassembly that panicked: nothing was written to the
\* formatter (the only write! is after the loop).
FmtPanic(msg, instrs, pos) ==
  [kind |-> "panic", text |-> "", instrs |-> instrs, panic |-> msg,
   consumed |-> pos]

\* while let Some(val) = src.next() { ... }; write!(f, "{output}")
RECURSIVE FmtLoop(_, _, _, _)
FmtLoop(src, pos, output, instrs) ==
  IF ~HasByte(src, pos) THEN FmtOk(output, instrs, pos)
  ELSE IF OpCodeFromU8(Byte(src, pos)).kind = "panic"
    THEN FmtPanic(OpCodeFromU8(Byte(src, pos)).panic, instrs, pos + 1)
  ELSE LET op == OpCodeFromU8(Byte(src, pos)).op
           a == Arm(op, src, pos + 1)
       IN IF a.kind = "panic" THEN FmtPanic(a.panic, instrs, a.pos)
          ELSE FmtLoop(src, a.pos, output \o a.line \o "\n",
                 Append(instrs, [at |-> pos, op |-> op, next |-> a.pos,
                                 regs |-> a.regs, line |-> a.line]))

\* <Program as Display>::fmt
ProgramFmt(src) == FmtLoop(src, 0, "", <<>>)

\* A Formatter, by the format string the caller gave: its width and its
\* precision, each absent (<<>>) or given (<<n>>).
FormatterOf(with, width, precision) ==
  [with |-> with, width |-> width, precision |-> precision]

\* n spaces
RECURSIVE Spaces(_)
Spaces(n) == IF n <= 0 THEN "" ELSE " " \o Spaces(n - 1)

\* A faulty last line of fmt: f.pad(&output), which cuts the text to the
\* Formatter's precision and fills it with spaces up to its width.
FormatterPad(f, output) ==
  LET cut == IF f.precision # <<>> /\ f.precision[1] < Len(output)
               THEN SubSeq(output, 1, f.precision[1])
               ELSE output
  IN IF f.width # <<>> /\ Len(cut) < f.width[1]
       THEN cut \o Spaces(f.width[1] - Len(cut))
       ELSE cut

\* write!(f, "{output}"): the text f receives.  `output` is formatted by
\* its own placeholder, which gives no width and no precision; those of f
\* are not looked at.
FormatterWriteFmt(f, output) == output

\* <Program as Display>::fmt(&self, f), f any Formatter
ProgramFmtTo(src, f) ==
  IF ProgramFmt(src).kind = "ok"
    THEN [ProgramFmt(src) EXCEPT !.text = FormatterWriteFmt(f, ProgramFmt(src).text)]
    ELSE ProgramFmt(src)

\* <Program as Debug>::fmt: Display::fmt(&self, f)
ProgramDebugFmt(src, f) == ProgramFmtTo(src, f)

-----------------------------------------------------------------------------
(* program.rs: construction, indexing, save and load. *)

\* Program::new
ProgramNew == <<>>
\* Program::from(Vec<u8>) and the other From impls
ProgramFrom(value) == value
\* Program::push
ProgramPush(p, value) == Append(p, value)
\* A faulty push_front: splice(0..args.len(), args), which replaces the
\* first bytes instead of moving them.
ProgramPushFrontOverwrite(p, args) ==
  IF Len(args) >= Len(p) THEN args
  ELSE args \o SubSeq(p, Len(args) + 1, Len(p))

\* Program::push_front: self.inner.splice(0..0, args)
ProgramPushFront(p, args) == args \o p
\* Program::extend_from_slice
ProgramExtendFromSlice(p, other) == p \o other
\* Program::len
ProgramLen(p) == Len(p)

\* A faulty Index: self.inner.get(index).unwrap_or(&0), a default instead of
\* a panic.
ProgramIndexOrDefault(p, index) ==
  [kind |-> "ok", value |-> IF index < Len(p) THEN p[index + 1] ELSE 0,
   index |-> index]

\* impl Index<u32> for Program: &self.inner[index as usize], which panics
\* when the index is not below the length
ProgramIndex(p, index) ==
  IF index < Len(p)
    THEN [kind |-> "ok", value |-> p[index + 1], index |-> index]
    ELSE [kind |-> "panic", value |-> 0, index |-> index]

\* impl IndexMut<u32> for Program, and the store through the reference it
\* returns: program[index] = value.  The panic comes before any store.
ProgramIndexMutSet(p, index, value) ==
  IF index < Len(p) THEN [p EXCEPT ![index + 1] = value] ELSE p

\* File::create(output): the file exists and is empty, whatever it held
FileCreate(f) == << <<>> >>
\* file.write_all(bytes)
FileWriteAll(f, bytes) == << f[1] \o bytes >>
\* A faulty save: the file opened for writing without truncation, so the
\* bytes of a longer earlier file stay after the new ones.
ProgramSaveNoTruncate(p, f) ==
  IF f = <<>> \/ Len(f[1]) <= Len(p) THEN <<p>>
  ELSE << p \o SubSeq(f[1], Len(p) + 1, Len(f[1])) >>

\* Program::save, when no I/O call fails: the file it leaves
ProgramSave(p, f) == FileWriteAll(FileCreate(f), p)
\* What the file system does to the two I/O calls of load: both succeed,
\* File::open returns Err, read_to_end returns Err.
LoadIo == {"ok", "open_fails", "read_fails"}

\* Program::load: File::open(source)? returns Err when there is no file or
\* when the file system refuses; file.read_to_end(&mut inner)? returns Err
\* when the read fails; else all of the file is read into a new Vec.  `io`
\* is kept in the outcome.
ProgramLoad(f, io) ==
  IF f = <<>> \/ io = "open_fails" THEN [kind |-> "Err", inner |-> <<>>, io |-> io]
  ELSE IF io = "read_fails" THEN [kind |-> "Err", inner |-> <<>>, io |-> io]
  ELSE [kind |-> "Ok", inner |-> f[1], io |-> io]

\* The store program.as_mut_slice().copy_from_slice(&s), s as long as the
\* Program: every byte of the buffer is replaced, the length kept
ProgramAsMutSliceStore(p, s) == s
\* Program::as_slice
ProgramAsSlice(p) == p

-----------------------------------------------------------------------------
(* The inputs of the disassembler specification: the byte arrays a caller  *)
(* emits, one instruction at a time, as the arrays of the test             *)
(* opcode_printing_in_program_display are built: [OpCode::X.into(), ...].  *)

Tag(op) == OpCodeToU8(op)

\* bytes of 1.0f32, -2.0f32 (little-endian)
F32One == <<0, 0, 128, 63>>
F32NegTwo == <<0, 0, 0, 192>>
\* bytes of 50u32, 1u32, 2147483649u32 (little-endian)
U32Fifty == <<50, 0, 0, 0>>
U32One == <<1, 0, 0, 0>>
U32Big == <<1, 0, 0, 128>>

OpsNone == {"Hlt", "Pop", "Noop"}
OpsRI == {"AddRI", "SubRI", "MulRI", "DivRI", "PowRI", "RvSubRI", "RvDivRI",
          "RvPowRI"}
OpsRR == {"AddRR", "SubRR", "MulRR", "DivRR", "PowRR"}
OpsCond == {"Jz", "Jnz"}
OpsNot == {"Not", "WriteStr"}
OpsRegReg == {"Copy", "MemCpy", "Alloc", "Realloc"}
OpsCall == {"Call", "SysCall", "Ret"}
OpsReg == {"Dealloc", "Push", "PopR"}
OpsMem == {"RMem", "WMem"}

\* The instructions with the operands the test uses.
TestInstrs ==
  { <<Tag(op)>> : op \in OpsNone }
  \cup { <<Tag("Load"), 14>> \o F32One }
  \cup { <<Tag(op), 14, 15>> \o F32One : op \in OpsRI }
  \cup { <<Tag(op), 14, 15, 16>> : op \in OpsRR }
  \cup { <<Tag("CmpRI"), 0, 14>> \o F32One, <<Tag("CmpRR"), 1, 14, 15>> }
  \cup { <<Tag("Not"), EQ, 14>>, <<Tag("WriteStr"), 15, 16>> }
  \cup { <<Tag(op), 14, 15>> : op \in OpsRegReg }
  \cup { <<Tag("Jmp")>> \o U32Fifty }
  \cup { <<Tag(op), 2>> \o U32Fifty : op \in OpsCond }
  \cup { <<Tag(op), 14>> : op \in OpsCall \cup OpsReg }
  \cup { <<Tag(op), 14, 15>> \o U32One \o <<16>> : op \in OpsMem }

\* The same instructions with other operands: the remaining compare flags,
\* the EQ register in every operand position, register byte 255, a negative
\* float and an integer immediate above 2^31.
MoreInstrs ==
  { <<Tag("Load"), 255>> \o F32One, <<Tag("Load"), 14>> \o F32NegTwo,
    <<Tag("AddRR"), 2, 2, 2>>,
    <<Tag("CmpRI"), 2, 14>> \o F32One, <<Tag("CmpRI"), 4, 14>> \o F32One,
    <<Tag("CmpRR"), 3, 14, 15>>,
    <<Tag("Not"), 14, 2>>, <<Tag("WriteStr"), EQ, 14>>,
    <<Tag("Copy"), 2, 2>>, <<Tag("Push"), 2>>,
    <<Tag("Jmp")>> \o U32Big, <<Tag("Jz"), 14>> \o U32Fifty,
    <<Tag("RMem"), 2, 2>> \o U32Big \o <<255>> }

InstrInputs == TestInstrs \cup MoreInstrs

\* An instruction cut short: its tag and fewer operand bytes than it has.
PartialInputs ==
  UNION { { SubSeq(e, 1, k) : k \in 1..(Len(e) - 1) } : e \in TestInstrs }

\* Bytes that are the tag of no opcode.
BadTagInputs == {36, 37, 128, 255}

\* Compare instructions whose flag byte is the tag of no CmpFlag.
BadFlagInputs ==
  { <<Tag("CmpRI"), fl, 14>> \o F32One : fl \in {5, 255} }
  \cup { <<Tag("CmpRR"), fl, 14, 15>> : fl \in {5, 255} }

-----------------------------------------------------------------------------
(* Values of the variables that hold no outcome yet. *)

NoOut == [kind |-> "none", text |-> "", instrs |-> <<>>, panic |-> "",
          consumed |-> 0]
NoRet == [kind |-> "none", value |-> 0, index |-> 0]
NoLoad == [kind |-> "none", inner |-> <<>>, io |-> ""]

-----------------------------------------------------------------------------
(* The disassembler specification: a caller appends instructions to an     *)
(* empty Program and prints it with "{}".                                  *)

Init ==
  /\ inner = ProgramNew
  /\ out = NoOut
  /\ shape = "complete"
  /\ ret = NoRet
  /\ file = <<>>
  /\ saveRes = "none"
  /\ saved = <<>>
  /\ loadRes = NoLoad
  /\ prepended = <<>>
  /\ initial = <<>>
  /\ appended = <<>>
  /\ emitted = <<>>
  /\ reads = <<>>
  /\ lastOp = "new"

\* The variables the disassembler specification leaves alone.
storeVars == <<ret, file, saveRes, saved, loadRes, prepended, initial, reads>>

\* program.extend_from_slice(&e), e one whole instruction.  (Here and
\* below the caller drops the text of an earlier print when it changes the
\* Program, so `out` is always about the Program as it is.)
EmitInstr(e) ==
  /\ shape # "partial"
  /\ Len(emitted) < MaxInstrs
  /\ inner' = ProgramExtendFromSlice(inner, e)
  /\ appended' = appended \o e
  /\ emitted' = Append(emitted, e)
  /\ out' = NoOut
  /\ lastOp' = "extend_from_slice"
  /\ UNCHANGED <<shape, storeVars>>

\* program.extend_from_slice(&t), t an instruction cut short; the caller
\* stops there
EmitPartial(t) ==
  /\ shape = "complete"
  /\ Len(emitted) < MaxInstrs
  /\ inner' = ProgramExtendFromSlice(inner, t)
  /\ appended' = appended \o t
  /\ emitted' = Append(emitted, t)
  /\ shape' = "partial"
  /\ lastOp' = "extend_from_slice"
  /\ out' = NoOut
  /\ UNCHANGED storeVars

\* program.push(b), b the tag of no opcode, where a tag belongs
EmitBadTag(b) ==
  /\ shape = "complete"
  /\ Len(emitted) < MaxInstrs
  /\ inner' = ProgramPush(inner, b)
  /\ appended' = Append(appended, b)
  /\ emitted' = Append(emitted, <<b>>)
  /\ shape' = "badtag"
  /\ lastOp' = "push"
  /\ out' = NoOut
  /\ UNCHANGED storeVars

\* program.extend_from_slice(&e), e a compare with a flag byte of no CmpFlag
EmitBadFlag(e) ==
  /\ shape = "complete"
  /\ Len(emitted) < MaxInstrs
  /\ inner' = ProgramExtendFromSlice(inner, e)
  /\ appended' = appended \o e
  /\ emitted' = Append(emitted, e)
  /\ shape' = "badflag"
  /\ lastOp' = "extend_from_slice"
  /\ out' = NoOut
  /\ UNCHANGED storeVars

\* format!("{}", program)
Fmt ==
  /\ out' = ProgramFmt(inner)
  /\ lastOp' = "fmt"
  /\ UNCHANGED <<inner, shape, appended, emitted, storeVars>>

Next ==
  \/ \E e \in InstrInputs : EmitInstr(e)
  \/ \E t \in PartialInputs : EmitPartial(t)
  \/ \E b \in BadTagInputs : EmitBadTag(b)
  \/ \E e \in BadFlagInputs : EmitBadFlag(e)
  \/ Fmt

Spec == Init /\ [][Next]_vars

-----------------------------------------------------------------------------
(* The construction specification: a Program is made from some bytes and   *)
(* grown by push, extend_from_slice and push_front.                        *)

\* The bytes the construction and storage specifications draw from.
BuildBytes == {0, 7, 255}

\* The byte sequences of length at most n.
SeqsUpTo(n) == UNION { [1..k -> BuildBytes] : k \in 0..n }

InitBuild ==
  /\ \E value \in SeqsUpTo(2) :
       /\ inner = ProgramFrom(value)
       /\ initial = value
  /\ prepended = <<>>
  /\ appended = <<>>
  /\ out = NoOut
  /\ shape = "complete"
  /\ ret = NoRet
  /\ file = <<>>
  /\ saveRes = "none"
  /\ saved = <<>>
  /\ loadRes = NoLoad
  /\ emitted = <<>>
  /\ reads = <<>>
  /\ lastOp = "from"

\* The variables the construction specification leaves alone.
otherVars == <<out, shape, ret, file, saveRes, saved, loadRes, emitted, reads>>

\* program.push(value)
Push(value) ==
  /\ Len(inner) < MaxBuild
  /\ inner' = ProgramPush(inner, value)
  /\ appended' = Append(appended, value)
  /\ lastOp' = "push"
  /\ UNCHANGED <<prepended, initial, otherVars>>

\* program.extend_from_slice(other)
ExtendFromSlice(other) ==
  /\ Len(inner) + Len(other) <= MaxBuild
  /\ inner' = ProgramExtendFromSlice(inner, other)
  /\ appended' = appended \o other
  /\ lastOp' = "extend_from_slice"
  /\ UNCHANGED <<prepended, initial, otherVars>>

\* program.push_front(args)
PushFront(args) ==
  /\ Len(inner) + Len(args) <= MaxBuild
  /\ inner' = ProgramPushFront(inner, args)
  /\ prepended' = args \o prepended
  /\ lastOp' = "push_front"
  /\ UNCHANGED <<appended, initial, otherVars>>

NextBuild ==
  \/ \E value \in BuildBytes : Push(value)
  \/ \E other \in SeqsUpTo(2) : ExtendFromSlice(other)
  \/ \E args \in SeqsUpTo(2) : PushFront(args)

SpecBuild == InitBuild /\ [][NextBuild]_vars

-----------------------------------------------------------------------------
(* The indexing specification: a Program is read and written through       *)
(* program[i], i a u32.                                                    *)

\* The indices tried: every offset of the longest buffer, the two past its
\* end, and one far beyond.
IndexInputs == 0..(MaxBuild + 1) \cup {65536}

\* The bytes the indexing specification holds and stores.
IndexBytes == {0, 255}

InitIndex ==
  /\ \E value \in UNION { [1..k -> IndexBytes] : k \in 0..MaxBuild } :
       /\ inner = ProgramFrom(value)
       /\ initial = value
  /\ prepended = <<>>
  /\ appended = <<>>
  /\ out = NoOut
  /\ shape = "complete"
  /\ ret = NoRet
  /\ file = <<>>
  /\ saveRes = "none"
  /\ saved = <<>>
  /\ loadRes = NoLoad
  /\ emitted = <<>>
  /\ reads = <<>>
  /\ lastOp = "from"

\* The variables the indexing specification leaves alone.
fixedVars == <<out, shape, file, saveRes, saved, loadRes, prepended, initial,
               appended, emitted, reads>>

\* let value = program[index];
IndexRead(index) ==
  /\ ret' = ProgramIndex(inner, index)
  /\ lastOp' = "index"
  /\ UNCHANGED <<inner, fixedVars>>

\* program[index] = value;
IndexWrite(index, value) ==
  /\ inner' = ProgramIndexMutSet(inner, index, value)
  /\ ret' = [ProgramIndex(inner, index) EXCEPT !.value = value]
  /\ lastOp' = "index_mut"
  /\ UNCHANGED fixedVars

\* program.as_mut_slice().copy_from_slice(&s)
AsMutSliceWrite(s) ==
  /\ Len(s) = Len(inner)
  /\ inner' = ProgramAsMutSliceStore(inner, s)
  /\ lastOp' = "as_mut_slice"
  /\ UNCHANGED <<ret, fixedVars>>

NextIndex ==
  \/ \E index \in IndexInputs : IndexRead(index)
  \/ \E index \in IndexInputs, value \in IndexBytes : IndexWrite(index, value)
  \/ \E s \in [1..Len(inner) -> IndexBytes] : AsMutSliceWrite(s)

SpecIndex == InitIndex /\ [][NextIndex]_vars

-----------------------------------------------------------------------------
(* The storage specification: a Program is saved to a path and loaded      *)
(* from it.  The path may hold nothing or an earlier program to begin      *)
(* with; File::create or write_all may fail, as the file system decides.   *)

\* What the path holds to begin with: nothing, an empty file, a program
\* longer than any the specification saves.
FileInputs ==
  { <<>>, << <<>> >>, << [i \in 1..(MaxBuild + 1) |-> 9] >> }

InitFile ==
  /\ \E value \in SeqsUpTo(MaxBuild) :
       /\ inner = ProgramFrom(value)
       /\ initial = value
  /\ file \in FileInputs
  /\ saveRes = "none"
  /\ saved = <<>>
  /\ loadRes = NoLoad
  /\ prepended = <<>>
  /\ appended = <<>>
  /\ out = NoOut
  /\ shape = "complete"
  /\ ret = NoRet
  /\ emitted = <<>>
  /\ reads = <<>>
  /\ lastOp = "from"

\* The variables the storage specification leaves alone.
plainVars == <<inner, out, shape, ret, prepended, initial, appended, emitted,
               reads>>

\* program.save(path) returns Ok(())
Save ==
  /\ file' = ProgramSave(inner, file)
  /\ saveRes' = "Ok"
  /\ saved' = <<inner>>
  /\ lastOp' = "save"
  /\ UNCHANGED <<loadRes, plainVars>>

\* program.save(path) returns Err from File::create: the file is as it was
SaveCreateFails ==
  /\ saveRes' = "Err"
  /\ saved' = <<>>
  /\ lastOp' = "save"
  /\ UNCHANGED <<file, loadRes, plainVars>>

\* program.save(path) returns Err from write_all, n bytes written
SaveWriteFails(n) ==
  /\ n < Len(inner)
  /\ file' = FileWriteAll(FileCreate(file), SubSeq(inner, 1, n))
  /\ saveRes' = "Err"
  /\ saved' = <<>>
  /\ lastOp' = "save"
  /\ UNCHANGED <<loadRes, plainVars>>

\* Program::load(path), the file system doing io
Load(io) ==
  /\ loadRes' = ProgramLoad(file, io)
  /\ lastOp' = "load"
  /\ UNCHANGED <<file, saveRes, saved, plainVars>>

NextFile ==
  \/ Save
  \/ SaveCreateFails
  \/ \E n \in 0..MaxBuild : SaveWriteFails(n)
  \/ \E io \in LoadIo : Load(io)

SpecFile == InitFile /\ [][NextFile]_vars

-----------------------------------------------------------------------------
(* The read-only specification: a Program made from some bytes is only     *)
(* read: printed with "{}" and with "{:?}", measured, indexed and saved,   *)
(* in any order.                                                           *)

\* Every opcode with the EQ register (index 2) in each of its register
\* operands.
EqInstrs ==
  { <<Tag("Load"), EQ>> \o F32One }
  \cup { <<Tag(op), EQ, EQ>> \o F32One : op \in OpsRI }
  \cup { <<Tag(op), EQ, EQ, EQ>> : op \in OpsRR }
  \cup { <<Tag("CmpRI"), 0, EQ>> \o F32One, <<Tag("CmpRR"), 1, EQ, EQ>> }
  \cup { <<Tag(op), EQ, EQ>> : op \in OpsNot \cup OpsRegReg }
  \cup { <<Tag(op), EQ>> \o U32Fifty : op \in OpsCond }
  \cup { <<Tag(op), EQ>> : op \in OpsReg }
  \cup { <<Tag(op), EQ, EQ>> \o U32One \o <<EQ>> : op \in OpsMem }

\* A caller's use of the first free register: a Load into it.
FreeInstrs == { <<Tag("Load"), FIRST_FREE_REGISTER>> \o F32One }

\* A few instructions to put in front of another.
LeadInstrs ==
  { <<Tag("Hlt")>>, <<Tag("Noop")>>, <<Tag("Not"), EQ, EQ>>,
    <<Tag("Jz"), 14>> \o U32Fifty }

\* A few instructions to put after another.
TailInstrs ==
  { <<Tag("WriteStr"), EQ, EQ>>, <<Tag("CmpRR"), 1, EQ, EQ>>,
    <<Tag("Jnz"), EQ>> \o U32Fifty }

\* The instructions cut short of four opcodes, one of each way to fail.
ReadPartials ==
  { t \in PartialInputs :
      t[1] \in {Tag("Load"), Tag("Jz"), Tag("Not"), Tag("RMem")} }

\* The buffers the Program is made from, each with its shape: the empty
\* buffer, one instruction, two instructions, and buffers that end in an
\* instruction cut short, in a byte that is no tag, or in a compare with a
\* flag byte that is no flag.
ReadInputs ==
  { [bytes |-> <<>>, shape |-> "complete"] }
  \cup { [bytes |-> e, shape |-> "complete"] :
           e \in InstrInputs \cup EqInstrs \cup FreeInstrs }
  \cup { [bytes |-> a \o e, shape |-> "complete"] :
           a \in LeadInstrs, e \in TailInstrs }
  \cup { [bytes |-> t, shape |-> "partial"] : t \in ReadPartials }
  \cup { [bytes |-> <<b>>, shape |-> "badtag"] : b \in BadTagInputs }
  \cup { [bytes |-> <<Tag("Hlt"), 255>>, shape |-> "badtag"] }
  \cup { [bytes |-> e, shape |-> "badflag"] : e \in BadFlagInputs }

InitRead ==
  /\ \E b \in ReadInputs :
       /\ inner = ProgramFrom(b.bytes)
       /\ initial = b.bytes
       /\ shape = b.shape
  /\ prepended = <<>>
  /\ appended = <<>>
  /\ out = NoOut
  /\ ret = NoRet
  /\ file = <<>>
  /\ saveRes = "none"
  /\ saved = <<>>
  /\ loadRes = NoLoad
  /\ emitted = <<>>
  /\ reads = <<>>
  /\ lastOp = "from"

\* The variables no read-only call changes.
builtVars == <<shape, loadRes, prepended, initial, appended, emitted>>

\* The Formatters of format!("{}", program) and of
\* format!("{:12.3}", program), and the one of format!("{:?}", program).
DisplayFormatters ==
  { FormatterOf("{}", <<>>, <<>>), FormatterOf("{:12.3}", <<12>>, <<3>>) }
DebugFormatters == { FormatterOf("{:?}", <<>>, <<>>) }

\* What the caller sees of a disassembly: the text, or the panic.
Seen(o) == [kind |-> o.kind, text |-> o.text, panic |-> o.panic]

\* An entry of `reads`: the call, and what it gave.
ReadOf(op, o, r) == [op |-> op, out |-> Seen(o), ret |-> r]

\* format!("{}", program), format!("{:12.3}", program)
ReadDisplay(f) ==
  /\ Len(reads) < MaxReads
  /\ out' = ProgramFmtTo(inner, f)
  /\ reads' = Append(reads, ReadOf(f.with, out', NoRet))
  /\ lastOp' = "fmt"
  /\ UNCHANGED <<inner, ret, file, saveRes, saved, builtVars>>

\* format!("{:?}", program)
ReadDebug(f) ==
  /\ Len(reads) < MaxReads
  /\ out' = ProgramDebugFmt(inner, f)
  /\ reads' = Append(reads, ReadOf(f.with, out', NoRet))
  /\ lastOp' = "debug"
  /\ UNCHANGED <<inner, ret, file, saveRes, saved, builtVars>>

\* program.len()
ReadLen ==
  /\ Len(reads) < MaxReads
  /\ reads' = Append(reads, ReadOf("len", NoOut,
                 [kind |-> "ok", value |-> ProgramLen(inner), index |-> 0]))
  /\ lastOp' = "len"
  /\ UNCHANGED <<inner, out, ret, file, saveRes, saved, builtVars>>

\* let bytes = program.as_slice();
ReadAsSlice ==
  /\ Len(reads) < MaxReads
  /\ reads' = Append(reads, ReadOf("as_slice", NoOut,
                 [kind |-> "ok", value |-> ProgramAsSlice(inner), index |-> 0]))
  /\ lastOp' = "as_slice"
  /\ UNCHANGED <<inner, out, ret, file, saveRes, saved, builtVars>>

\* let value = program[index];
ReadIndex(index) ==
  /\ Len(reads) < MaxReads
  /\ ret' = ProgramIndex(inner, index)
  /\ reads' = Append(reads, ReadOf("index", NoOut, ret'))
  /\ lastOp' = "index"
  /\ UNCHANGED <<inner, out, file, saveRes, saved, builtVars>>

\* program.save(path) returns Ok(())
ReadSave ==
  /\ Len(reads) < MaxReads
  /\ file' = ProgramSave(inner, file)
  /\ saveRes' = "Ok"
  /\ saved' = <<inner>>
  /\ reads' = Append(reads, ReadOf("save", NoOut,
                 [kind |-> "Ok", value |-> 0, index |-> 0]))
  /\ lastOp' = "save"
  /\ UNCHANGED <<inner, out, ret, builtVars>>

\* program.save(path) returns Err from File::create: the file is as it was
ReadSaveCreateFails ==
  /\ Len(reads) < MaxReads
  /\ saveRes' = "Err"
  /\ saved' = <<>>
  /\ reads' = Append(reads, ReadOf("save", NoOut,
                 [kind |-> "Err", value |-> 0, index |-> 0]))
  /\ lastOp' = "save"
  /\ UNCHANGED <<inner, out, ret, file, builtVars>>

\* program.save(path) returns Err from write_all, n bytes written
ReadSaveWriteFails(n) ==
  /\ Len(reads) < MaxReads
  /\ n < Len(inner)
  /\ file' = FileWriteAll(FileCreate(file), SubSeq(inner, 1, n))
  /\ saveRes' = "Err"
  /\ saved' = <<>>
  /\ reads' = Append(reads, ReadOf("save", NoOut,
                 [kind |-> "Err", value |-> n, index |-> 0]))
  /\ lastOp' = "save"
  /\ UNCHANGED <<inner, out, ret, builtVars>>

\* The bytes a failing write_all got to write: none, or the first two.
SaveWritten == {0, 2}

\* The indices read: the first byte, and one past the last.
NextRead ==
  \/ \E f \in DisplayFormatters : ReadDisplay(f)
  \/ \E f \in DebugFormatters : ReadDebug(f)
  \/ ReadLen
  \/ ReadAsSlice
  \/ \E index \in {0, Len(inner)} : ReadIndex(index)
  \/ ReadSave
  \/ ReadSaveCreateFails
  \/ \E n \in SaveWritten : ReadSaveWriteFails(n)

SpecRead == InitRead /\ [][NextRead]_vars

-----------------------------------------------------------------------------
(* Properties of the disassembler. *)

\* The offset at which the k-th emitted slice starts.
RECURSIVE OffsetOf(_, _)
OffsetOf(slices, k) ==
  IF k = 1 THEN 0 ELSE OffsetOf(slices, k - 1) + Len(slices[k - 1])

\* The operand bytes the decoder consumed for the k-th tag it read.
Consumed(k) == out.instrs[k].next - (out.instrs[k].at + 1)

\* The offset at which the decoder read its next tag after the k-th, or
\* found the buffer exhausted.
NextTagAt(k) ==
  IF k < Len(out.instrs) THEN out.instrs[k + 1].at ELSE out.consumed

\* The operand byte counts claim C2 declares, by opcode.
C2_Declared(op) ==
  CASE op = "Load" -> 5
    [] op \in {"AddRI", "SubRI", "RvSubRI", "MulRI", "DivRI", "RvDivRI",
               "PowRI", "RvPowRI"} -> 6
    [] op \in {"AddRR", "SubRR", "MulRR", "DivRR", "PowRR"} -> 3
    [] op = "CmpRI" -> 6
    [] op = "CmpRR" -> 3
    [] op \in {"Not", "Copy", "MemCpy"} -> 2
    [] op = "Jmp" -> 4
    [] op \in {"Jz", "Jnz"} -> 5
    [] op \in {"SysCall", "Ret"} -> 1
    [] op \in {"Alloc", "Realloc"} -> 2
    [] op \in {"Dealloc", "Push", "PopR"} -> 1
    [] op \in {"RMem", "WMem"} -> 7
    [] op = "WriteStr" -> 2
    [] op \in {"Hlt", "Pop", "Noop"} -> 0

\* C2: disassembling a buffer of complete instructions, the decoder reads a
\* tag at the start of every instruction the caller emitted, and after each
\* tag consumes exactly the operand bytes declared for that opcode (Load 5,
\* the register-immediate arithmetic 6, ..., Hlt, Pop, Noop 0) before it
\* reads the next tag or finds the buffer exhausted.
C2_OperandWidths ==
  (lastOp = "fmt" /\ shape = "complete") =>
    /\ out.kind = "ok"
    /\ Len(out.instrs) = Len(emitted)
    /\ \A k \in 1..Len(out.instrs) :
         /\ out.instrs[k].at = OffsetOf(emitted, k)
         /\ Tag(out.instrs[k].op) = Byte(inner, out.instrs[k].at)
         /\ NextTagAt(k) = out.instrs[k].next
         /\ out.instrs[k].op # "Call" =>
              Consumed(k) = C2_Declared(out.instrs[k].op)

\* An RMem (7 operand bytes) followed by a Load (5) was disassembled.
C2_Witness ==
  /\ lastOp = "fmt" /\ shape = "complete"
  /\ Len(out.instrs) = 2
  /\ out.instrs[1].op = "RMem" /\ out.instrs[2].op = "Load"
  /\ out.instrs[2].at = 8

\* C3 as stated: decoding a Call consumes the tag plus 4 operand bytes (a
\* u32), decoding a SysCall or a Ret the tag plus 1 operand byte.
C3_CallIsImm32 ==
  (lastOp = "fmt" /\ shape = "complete") =>
    /\ out.kind = "ok"
    /\ \A k \in 1..Len(out.instrs) :
         /\ out.instrs[k].op = "Call" => Consumed(k) = 4
         /\ out.instrs[k].op \in {"SysCall", "Ret"} => Consumed(k) = 1

\* C3 amended: Call, SysCall and Ret each carry a 1-byte (u8) index:
\* decoding any of them consumes the tag plus 1 operand byte, printed in
\* decimal after the mnemonic.
C3_CallIsImm8 ==
  (lastOp = "fmt" /\ shape = "complete") =>
    /\ out.kind = "ok"
    /\ \A k \in 1..Len(out.instrs) :
         out.instrs[k].op \in {"Call", "SysCall", "Ret"} =>
           /\ Consumed(k) = 1
           /\ NextTagAt(k) = out.instrs[k].at + 2
           /\ out.instrs[k].line =
                OpCodeDisplay(out.instrs[k].op) \o " "
                  \o DecStr(Byte(inner, out.instrs[k].at + 1))

\* A Call with index 14 followed by another instruction was disassembled.
C3_Witness ==
  /\ lastOp = "fmt" /\ shape = "complete"
  /\ Len(out.instrs) = 2
  /\ out.instrs[1].op = "Call" /\ out.instrs[1].line = "Call 14"
  /\ out.instrs[2].at = 2

\* C4: disassembling a buffer whose last instruction is cut short (its tag
\* present, operand bytes missing) fails: it panics, writes no text at all
\* (so no line for the partial instruction), and the iterator has yielded
\* no more bytes than the buffer holds.
C4_TruncatedFails ==
  (lastOp = "fmt" /\ shape = "partial") =>
    /\ out.kind = "panic"
    /\ out.panic \in {"unwrap_none", "unwrap_err", "unreachable"}
    /\ out.text = ""
    /\ out.consumed <= Len(inner)
    /\ Len(out.instrs) = Len(emitted) - 1
    /\ \A k \in 1..Len(out.instrs) : out.instrs[k].at = OffsetOf(emitted, k)

\* A complete instruction followed by an RMem cut inside its 4-byte offset
\* was disassembled.
C4_Witness ==
  /\ lastOp = "fmt" /\ shape = "partial"
  /\ Len(emitted) = 2
  /\ emitted[2] = <<Tag("RMem"), 14, 15, 1, 0>>
  /\ out.kind = "panic"

\* C5: a byte from 36 to 255 in tag position is a fatal decode error:
\* OpCode::from fails for it, and disassembling a buffer with such a byte at
\* an instruction boundary fails and returns no text; the same for a flag
\* byte outside 0..=4 in a CmpRI or CmpRR.
C5_InvalidTagFatal ==
  /\ (lastOp = "fmt" /\ shape = "badtag") =>
       /\ \A b \in 36..255 : OpCodeFromU8(b).kind = "panic"
       /\ \A b \in 0..35 : OpCodeFromU8(b).kind = "ok"
       /\ out.kind = "panic" /\ out.panic = "invalid_opcode"
       /\ out.text = ""
  /\ (lastOp = "fmt" /\ shape = "badflag") =>
       /\ \A b \in 5..255 : CmpFlagFromU8(b).kind = "panic"
       /\ \A b \in 0..4 : CmpFlagFromU8(b).kind = "ok"
       /\ out.kind = "panic" /\ out.panic = "invalid_cmpflag"
       /\ out.text = ""

\* A CmpRR with flag byte 5 after a complete instruction was disassembled.
C5_Witness ==
  /\ lastOp = "fmt" /\ shape = "badflag"
  /\ Len(emitted) >= 2
  /\ emitted[2] = <<Tag("CmpRR"), 5, 14, 15>>
  /\ out.kind = "panic"

\* C6 as stated: disassembling a buffer with an invalid opcode byte never
\* aborts by panic (the failure is an error value returned to the caller).
C6_NoPanic ==
  (lastOp = "fmt" /\ shape = "badtag") => out.kind # "panic"

\* C6 amended: decoding an invalid opcode byte aborts by panic: the
\* conversion of the byte to an OpCode panics ("<byte> is not a valid
\* OpCode"), and so does the disassembly of a buffer that has the byte where
\* a tag is read, right after the iterator yielded it; no value, Ok or Err,
\* is returned to the caller.
C6_InvalidOpcodePanics ==
  (lastOp = "fmt" /\ shape = "badtag") =>
    /\ out.kind = "panic" /\ out.panic = "invalid_opcode"
    /\ out.consumed >= 1
    /\ OpCodeFromU8(Byte(inner, out.consumed - 1)).kind = "panic"
    /\ OpCodeFromPrimitive(Byte(inner, out.consumed - 1)) = <<>>
    /\ \E k \in 1..Len(emitted) :
         /\ out.consumed - 1 = OffsetOf(emitted, k)
         /\ emitted[k] = <<Byte(inner, out.consumed - 1)>>

\* Byte 255 in tag position after a complete instruction was disassembled.
C6_Witness ==
  /\ lastOp = "fmt" /\ shape = "badtag"
  /\ Len(emitted) = 2
  /\ emitted[2] = <<255>>
  /\ out.kind = "panic"

\* C7: every register operand of a successfully decoded instruction is
\* below REG_COUNT.
C7_RegsBelowRegCount ==
  (lastOp = "fmt" /\ out.kind = "ok") =>
    \A k \in 1..Len(out.instrs) :
      \A j \in 1..Len(out.instrs[k].regs) : out.instrs[k].regs[j] < REG_COUNT

\* The operand layout of each opcode, as claim C10 reads it off the
\* encoding: registers, compare flags, 1-byte indices, 4-byte immediates.
C10_Layout(op) ==
  CASE op = "Load" -> <<"reg", "f32">>
    [] op \in OpsRI -> <<"reg", "reg", "f32">>
    [] op \in OpsRR -> <<"reg", "reg", "reg">>
    [] op = "CmpRI" -> <<"flag", "reg", "f32">>
    [] op = "CmpRR" -> <<"flag", "reg", "reg">>
    [] op \in OpsNot \cup OpsRegReg -> <<"reg", "reg">>
    [] op = "Jmp" -> <<"u32">>
    [] op \in OpsCond -> <<"reg", "u32">>
    [] op \in OpsCall -> <<"u8">>
    [] op \in OpsReg -> <<"reg">>
    [] op \in OpsMem -> <<"reg", "reg", "u32", "reg">>
    [] op \in OpsNone -> <<>>

C10_Width(kind) == IF kind \in {"f32", "u32"} THEN 4 ELSE 1

\* The texts claim C10 allows for one operand, whose bytes start at index i
\* of the encoding e: a register is `$` and its name (its decimal index, or
\* EQ for register 2), a flag its name, an integer its decimal value.
C10_OperandTexts(kind, e, i) ==
  CASE kind = "reg" ->
         {"$" \o DecStr(e[i])} \cup (IF e[i] = EQ THEN {"$EQ"} ELSE {})
    [] kind = "flag" ->
         {CmpFlagDisplay(fl) :
            fl \in {f \in {"Eq", "Gt", "Lt", "Geq", "Leq"} : CmpFlagToU8(f) = e[i]}}
    [] kind = "u8" -> {DecStr(e[i])}
    [] kind = "u32" -> {U32Str(SubSeq(e, i, i + 3))}
    [] kind = "f32" -> {F32Str(SubSeq(e, i, i + 3))}

\* The lines claim C10 allows for the encoding e: the texts so far, then
\* the operands from the j-th on, whose bytes start at index i.
RECURSIVE C10_Extend(_, _, _, _, _)
C10_Extend(texts, layout, j, e, i) ==
  IF j > Len(layout) THEN texts
  ELSE C10_Extend(
         { t \o (IF j = 1 THEN " " ELSE ", ") \o o :
             t \in texts, o \in C10_OperandTexts(layout[j], e, i) },
         layout, j + 1, e, i + C10_Width(layout[j]))

C10_Lines(e) ==
  C10_Extend({OpCodeDisplay(OpCodeDecl[e[1] + 1])},
             C10_Layout(OpCodeDecl[e[1] + 1]), 1, e, 2)

\* The texts of the slices from the k-th on, each disassembled alone, one
\* after the other.
RECURSIVE C10_EachAlone(_, _)
C10_EachAlone(slices, k) ==
  IF k > Len(slices) THEN ""
  ELSE ProgramFmt(slices[k]).text \o C10_EachAlone(slices, k + 1)

\* C10: the disassembly of N complete instructions is N lines in buffer
\* order, each the line its instruction gives when disassembled alone and
\* each ended by a newline; a line is the mnemonic, then the operands in
\* encoded order separated by ", ", registers prefixed by `$`, flags by
\* name, integer immediates in decimal of their little-endian value.
C10_OneLinePerInstr ==
  (lastOp = "fmt" /\ shape = "complete") =>
    /\ out.kind = "ok"
    /\ Len(out.instrs) = Len(emitted)
    /\ out.text = C10_EachAlone(emitted, 1)
    /\ \A k \in 1..Len(emitted) :
         /\ ProgramFmt(emitted[k]).kind = "ok"
         /\ \E l \in C10_Lines(emitted[k]) :
              ProgramFmt(emitted[k]).text = l \o "\n"
    /\ emitted = << <<Tag("Jmp"), 50, 0, 0, 0>> >> => out.text = "Jmp 50\n"
    /\ emitted = << <<Tag("Load"), 14, 0, 0, 128, 63>> >> =>
         out.text = "Load $14, 1\n"

\* A WMem followed by a CmpRI with flag Leq was disassembled into two lines.
C10_Witness ==
  /\ lastOp = "fmt" /\ shape = "complete"
  /\ out.text = "WMem $14, $15, 1, $16\nCmp_RI LEQ, $14, 1\n"

-----------------------------------------------------------------------------
(* Properties of save and load, construction and indexing. *)

\* C1: a load that follows a save that returned Ok, and whose own I/O
\* calls succeed, returns Ok with a Program whose bytes are those of the
\* saved Program: the same length, the same byte at every offset, whatever
\* the path held before; a load the file system fails returns Err and no
\* Program, and leaves the file as the save wrote it.
C1_SaveLoadRoundTrip ==
  (lastOp = "load" /\ saveRes = "Ok") =>
    /\ saved = <<inner>>
    /\ file = saved
    /\ loadRes.io = "ok" =>
         /\ loadRes.kind = "Ok"
         /\ Len(loadRes.inner) = Len(saved[1])
         /\ \A i \in 0..(Len(saved[1]) - 1) :
              Byte(loadRes.inner, i) = Byte(saved[1], i)
    /\ loadRes.io # "ok" => loadRes.kind = "Err"
    /\ loadRes.kind = "Ok" => loadRes.inner = saved[1]

\* A two-byte Program was saved and loaded back.
C1_Witness ==
  /\ lastOp = "load" /\ saveRes = "Ok"
  /\ initial = <<7, 255>>
  /\ loadRes.io = "ok"
  /\ loadRes.kind = "Ok" /\ loadRes.inner = <<7, 255>>
  /\ file = << <<7, 255>> >>

\* C8: the buffer is the prepended chunks (latest first), then the initial
\* bytes, then the appended bytes in order; a push_front of n bytes puts
\* them at offsets 0..n-1, moves the byte at offset i to offset i + n and
\* adds n to the length; push and extend_from_slice leave every byte at its
\* offset.
C8_Construction ==
  /\ [](inner = prepended \o initial \o appended)
  /\ [][ /\ lastOp' = "push_front" =>
              LET n == Len(prepended') - Len(prepended) IN
              /\ Len(inner') = Len(inner) + n
              /\ \A i \in 0..(n - 1) : Byte(inner', i) = Byte(prepended', i)
              /\ \A i \in 0..(Len(inner) - 1) :
                   Byte(inner', i + n) = Byte(inner, i)
         /\ lastOp' \in {"push", "extend_from_slice"} =>
              /\ Len(inner') = Len(inner) + (Len(appended') - Len(appended))
              /\ \A i \in 0..(Len(inner) - 1) : Byte(inner', i) = Byte(inner, i)
              /\ \A i \in Len(inner)..(Len(inner') - 1) :
                   Byte(inner', i) = Byte(appended', i - Len(inner) + Len(appended))
       ]_vars

\* Two chunks were prepended to, and bytes appended to, a one-byte Program.
C8_Witness ==
  /\ lastOp = "push_front"
  /\ initial = <<0>>
  /\ prepended = <<7, 255>>
  /\ appended = <<255>>
  /\ inner = <<7, 255, 0, 255>>

\* C9: program[i] yields the byte at offset i when i is below the length
\* and panics otherwise; program[i] = v sets the byte at offset i and no
\* other, keeping the length, and panics changing nothing when i is not
\* below the length.
C9_Indexing ==
  [][ /\ lastOp' = "index" =>
           /\ inner' = inner
           /\ ret'.index < Len(inner) =>
                ret'.kind = "ok" /\ ret'.value = Byte(inner, ret'.index)
           /\ ret'.index >= Len(inner) => ret'.kind = "panic"
      /\ lastOp' = "index_mut" =>
           /\ Len(inner') = Len(inner)
           /\ ret'.index < Len(inner) =>
                /\ ret'.kind = "ok"
                /\ Byte(inner', ret'.index) = ret'.value
                /\ \A i \in 0..(Len(inner) - 1) :
                     i # ret'.index => Byte(inner', i) = Byte(inner, i)
           /\ ret'.index >= Len(inner) =>
                ret'.kind = "panic" /\ inner' = inner
    ]_vars

\* The last byte of a full buffer was overwritten through the index.
C9_Witness ==
  /\ lastOp = "index_mut"
  /\ ret.kind = "ok" /\ ret.index = MaxBuild - 1 /\ ret.value = 255
  /\ initial[MaxBuild] = 0
  /\ inner[MaxBuild] = 255

-----------------------------------------------------------------------------
(* Properties of the read-only calls. *)

\* The calls that disassemble the Program.
IsFmt(r) == r.op \in {"{}", "{:12.3}", "{:?}"}

C12_RegText(op, nth, b) ==
  IF op \in {"Jz", "Jnz", "Not", "WriteStr"} /\ nth = 1 /\ b = EQ
    THEN "$EQ"
    ELSE "$" \o DecStr(b)

\* The line of the encoding e with its registers written as claim C12 says:
\* the text so far, then the operands from the j-th on, whose bytes start
\* at index i of e, `seen` register operands having come before.
RECURSIVE C12_Extend(_, _, _, _, _, _)
C12_Extend(text, op, j, seen, e, i) ==
  IF j > Len(C10_Layout(op)) THEN text
  ELSE LET kind == C10_Layout(op)[j]
           o == IF kind = "reg" THEN C12_RegText(op, seen + 1, e[i])
                ELSE CHOOSE t \in C10_OperandTexts(kind, e, i) : TRUE
       IN C12_Extend(text \o (IF j = 1 THEN " " ELSE ", ") \o o, op, j + 1,
                     IF kind = "reg" THEN seen + 1 ELSE seen,
                     e, i + C10_Width(kind))

C12_Line(e) ==
  C12_Extend(OpCodeDisplay(OpCodeDecl[e[1] + 1]), OpCodeDecl[e[1] + 1],
             1, 0, e, 2)

\* C12: in every line of a disassembly the EQ register (index 2) is written
\* `$EQ` when it is the first register operand of Jz, Jnz, Not or WriteStr,
\* and every other register operand of every opcode, the second operand of
\* Not and WriteStr included, is written `$` and its decimal index, index 2
\* included.
C12_EqRendering ==
  (lastOp \in {"fmt", "debug"}) =>
    \A k \in 1..Len(out.instrs) :
      out.instrs[k].line =
        C12_Line(SubSeq(inner, out.instrs[k].at + 1, out.instrs[k].next))

\* A Not and a WriteStr with register 2 in both operands were disassembled.
C12_Witness ==
  /\ lastOp = "fmt"
  /\ inner = <<Tag("Not"), EQ, EQ, Tag("WriteStr"), EQ, EQ>>
  /\ out.text = "Not $EQ, $2\nWriteStr $EQ, $2\n"

-----------------------------------------------------------------------------
(* Properties of the register constants and of the tags. *)

\* C13: FIRST_FREE_REGISTER is the first register that is not reserved: PC,
\* SP, EQ and LOOP are pairwise distinct, the argument block R4-R13 starts
\* right above them and has no gap, every reserved index is strictly below
\* FIRST_FREE_REGISTER, and FIRST_FREE_REGISTER is not reserved and is
\* below REG_COUNT; so a register operand of a program that is not below
\* FIRST_FREE_REGISTER is no reserved register.
C13_FirstFreeRegister ==
  /\ Cardinality({PC, SP, EQ, LOOP}) = 4
  /\ \A r \in ArgRegisters : \A q \in {PC, SP, EQ, LOOP} : q < r
  /\ \E r \in ArgRegisters : \E q \in {PC, SP, EQ, LOOP} : r = q + 1
  /\ \A r \in 0..(REG_COUNT - 1) :
       (\E lo \in ArgRegisters, hi \in ArgRegisters : lo <= r /\ r <= hi)
         => r \in ArgRegisters
  /\ \A r \in ReservedRegisters : r < FIRST_FREE_REGISTER
  /\ FIRST_FREE_REGISTER \notin ReservedRegisters
  /\ FIRST_FREE_REGISTER < REG_COUNT
  /\ (lastOp \in {"fmt", "debug"}) =>
       \A k \in 1..Len(out.instrs) :
         \A j \in 1..Len(out.instrs[k].regs) :
           out.instrs[k].regs[j] >= FIRST_FREE_REGISTER =>
             out.instrs[k].regs[j] \notin ReservedRegisters

\* The tags of the OpCode variants are 0..=35 in declaration order and
\* round-trip through u8.
C14_OpCodeTags ==
  /\ Len(OpCodeDecl) = 36 /\ Cardinality(OpCodes) = 36
  /\ { OpCodeToU8(op) : op \in OpCodes } = 0..35
  /\ OpCodeToU8("Hlt") = 0 /\ OpCodeToU8("Noop") = 35
  /\ \A i \in 1..Len(OpCodeDecl) : OpCodeToU8(OpCodeDecl[i]) = i - 1
  /\ \A op1 \in OpCodes, op2 \in OpCodes :
       OpCodeToU8(op1) = OpCodeToU8(op2) => op1 = op2
  /\ \A op \in OpCodes :
       /\ OpCodeFromU8(OpCodeToU8(op)).kind = "ok"
       /\ OpCodeFromU8(OpCodeToU8(op)).op = op
  /\ \A b \in 0..35 :
       /\ OpCodeFromU8(b).kind = "ok"
       /\ OpCodeFromU8(b).op \in OpCodes
       /\ OpCodeToU8(OpCodeFromU8(b).op) = b

\* The tags of the CmpFlag variants are 0..=4 in declaration order (Eq, Gt,
\* Lt, Geq, Leq) and round-trip through u8.
C14_CmpFlagTags ==
  /\ CmpFlagDecl = <<"Eq", "Gt", "Lt", "Geq", "Leq">>
  /\ \A i \in 1..Len(CmpFlagDecl) : CmpFlagToU8(CmpFlagDecl[i]) = i - 1
  /\ \A i \in 1..Len(CmpFlagDecl) :
       /\ CmpFlagFromU8(CmpFlagToU8(CmpFlagDecl[i])).kind = "ok"
       /\ CmpFlagFromU8(CmpFlagToU8(CmpFlagDecl[i])).fl = CmpFlagDecl[i]
  /\ \A b \in 0..4 :
       /\ CmpFlagFromU8(b).kind = "ok"
       /\ CmpFlagFromU8(b).fl \in { CmpFlagDecl[i] : i \in 1..Len(CmpFlagDecl) }
       /\ CmpFlagToU8(CmpFlagFromU8(b).fl) = b

\* C14: opcode tags round-trip and are contiguous: OpCode::from(u8::from(op))
\* is op for every variant, u8::from(OpCode::from(b)) is b for every byte b
\* in 0..=35, the 36 variants take the tags 0..=35 in declaration order
\* (Hlt = 0, Noop = 35) so no two share a tag, and the same holds for
\* CmpFlag with the tags 0..=4; in a disassembly, the opcode decoded at
\* each tag converts back to the byte read there, and so does the flag of
\* each compare.
C14_TagsRoundTrip ==
  /\ C14_OpCodeTags
  /\ C14_CmpFlagTags
  /\ (lastOp \in {"fmt", "debug"}) =>
       \A k \in 1..Len(out.instrs) :
         /\ OpCodeToU8(out.instrs[k].op) = Byte(inner, out.instrs[k].at)
         /\ OpCodeFromU8(OpCodeToU8(out.instrs[k].op)).op = out.instrs[k].op
         /\ out.instrs[k].op \in {"CmpRI", "CmpRR"} =>
              LET fl == CmpFlagFromU8(Byte(inner, out.instrs[k].at + 1))
              IN fl.kind = "ok" /\ CmpFlagToU8(fl.fl) = Byte(inner, out.instrs[k].at + 1)

\* A Noop (tag 35) and a CmpRR with flag Gt (tag 1) were disassembled.
C14_Witness ==
  /\ lastOp = "fmt"
  /\ inner = <<35, 18, 1, 2, 2>>
  /\ Len(out.instrs) = 2
  /\ out.instrs[1].op = "Noop" /\ out.instrs[2].op = "CmpRR"
  /\ out.text = "Noop\nCmp_RR GT, $2, $2\n"

====
